---------------------------- MODULE Spec2Model ----------------------------
(***************************************************************************)
(* The chat relay of src/main.py: the process-wide session map             *)
(* chat_sessions, the /api/chat handler in both modes, the streaming       *)
(* generator, and the session handlers.                                    *)
(*                                                                         *)
(* Requests are served by threads over one shared dict.  Every Python      *)
(* statement that reads or writes chat_sessions is one step of the turn    *)
(* that runs it, and steps of different requests interleave freely.        *)
(* Statements that touch only locals are folded into the next step that    *)
(* touches the shared dict.  The handlers of /api/sessions, /api/clear and *)
(* /health hold no blocking call and are one step each.                    *)
(*                                                                         *)
(* Text (questions, answers, fragments, failure descriptions) is a         *)
(* sequence of one-character strings, so that strip(), +=, lower() and     *)
(* the "in" test are computed, not assumed.                                *)
(*                                                                         *)
(* time.time() is read when a message is appended; clock is its last       *)
(* reading, and a reading is never earlier than the one before it.         *)
(*                                                                         *)
(* A request's locals are gone when its handler returns: its record goes   *)
(* back to Returned, and resp holds what it answered until the next step.  *)
(***************************************************************************)
EXTENDS Integers, Sequences, FiniteSets, TLC

VARIABLES
    chat_sessions,   \* the dict of line 19, in insertion order: <<[id, messages]>>
    req,             \* one record per /api/chat request (turn): its locals and position
    resp,            \* the response of the handler that returned in the last step
    clock,           \* the last reading of time.time()
    api_key,         \* whether os.getenv("OPENAI_API_KEY") is set
    cleared          \* history: clear_all has run and no request has arrived since

vars == <<chat_sessions, req, resp, clock, api_key, cleared>>

-----------------------------------------------------------------------------
(* Bounds *)

MaxTurns == 2
MaxClock == 1

Turns == 1..MaxTurns

-----------------------------------------------------------------------------
(* Program constants *)

DEFAULT_MODEL == "gpt-3.5-turbo"
\* line 23, its text cut to one character
SYSTEM_MESSAGE == <<"S">>
\* the 20 of [-20:], lines 113 and 151
HistoryLimit == 20
\* the 50 of [:50], line 199
TitleLimit == 50

-----------------------------------------------------------------------------
(* Inputs *)

\* Session keys are the client's to choose: any text will do as one.
SessionIds == {"s1", "quota"}
Models == {DEFAULT_MODEL}
RawQuestions == {<< >>, <<" ">>, <<" ", "a", " ">>}
Answers == {<<"h", "i">>}

\* A chunk of the upstream stream: delta.content is a text or None.
Chunk(content) == [has_content |-> TRUE, content |-> content]
NoContent == [has_content |-> FALSE, content |-> << >>]

\* The streams upstream may send, chunk by chunk.
Streams == { << >>, <<Chunk(<<"x">>), NoContent, Chunk(<<"y">>)>> }

\* Failure descriptions of the upstream client, str(e).
UpstreamErrors ==
    { <<"i", "n", "v", "a", "l", "i", "d", "_", "a", "p", "i", "_", "k", "e", "y">>,
      <<"Q", "u", "o", "t", "a">>,
      <<"t", "i", "m", "e", "o", "u", "t">> }

-----------------------------------------------------------------------------
(* Text *)

RECURSIVE LStrip(_)
LStrip(s) ==
    IF s = << >> THEN s
    ELSE IF Head(s) = " " THEN LStrip(Tail(s)) ELSE s

RECURSIVE RStrip(_)
RStrip(s) ==
    IF s = << >> THEN s
    ELSE IF s[Len(s)] = " " THEN RStrip(SubSeq(s, 1, Len(s) - 1)) ELSE s

\* str.strip()
Strip(s) == RStrip(LStrip(s))

\* s[:n]
Prefix(s, n) == SubSeq(s, 1, IF Len(s) < n THEN Len(s) ELSE n)

\* s[-n:]
LastN(s, n) == IF Len(s) <= n THEN s ELSE SubSeq(s, Len(s) - n + 1, Len(s))

-----------------------------------------------------------------------------
(* The dict chat_sessions *)

Keys(d) == {d[i].id : i \in 1..Len(d)}

\* k in d
Has(d, k) == k \in Keys(d)

\* d[k], for a key that is present
Get(d, k) == d[CHOOSE i \in 1..Len(d) : d[i].id = k].messages

\* d[k] = v : a present key keeps its place, a new key goes last
SetItem(d, k, v) ==
    IF Has(d, k)
    THEN [i \in 1..Len(d) |-> IF d[i].id = k THEN [id |-> k, messages |-> v] ELSE d[i]]
    ELSE Append(d, [id |-> k, messages |-> v])

\* line 222 emptying the list instead of deleting the key
DelItem_Empty(d, k) == SetItem(d, k, << >>)

\* del d[k]
DelItem(d, k) == SelectSeq(d, LAMBDA e : e.id # k)

\* What a reader finds under key k: whether it is there, and its list.
Entry(d, k) ==
    IF Has(d, k) THEN [present |-> TRUE, messages |-> Get(d, k)]
    ELSE [present |-> FALSE, messages |-> << >>]

\* repr of a session key, as str(KeyError(k)) prints it
Repr(k) ==
    CASE k = "s1" -> <<"'", "s", "1", "'">>
      [] k = "quota" -> <<"'", "q", "u", "o", "t", "a", "'">>

-----------------------------------------------------------------------------
(* Messages, prompts, events *)

\* A message dict of a session list.  turn names the request that appended
\* it; the program keeps no such field, it is here to tell two equal
\* messages apart.
Message(role, content, now, t) ==
    [role |-> role, content |-> content, timestamp |-> now, turn |-> t]

\* What time.time() may return now.
Now == {clock} \cup (IF clock < MaxClock THEN {clock + 1} ELSE {})

\* lines 108-118 and 146-156: the system message, then role and content of
\* each message of the slice
PromptOf(history) ==
    <<[role |-> "system", content |-> SYSTEM_MESSAGE]>>
        \o [i \in 1..Len(history) |->
                [role |-> history[i].role, content |-> history[i].content]]

\* lines 113 and 151 with [:20] for [-20:]
HistorySlice_First(d, k) == Prefix(Get(d, k), HistoryLimit)

\* line 113, line 151
HistorySlice(d, k) == LastN(Get(d, k), HistoryLimit)

ContentEvent(content) == [kind |-> "content", text |-> content]
DoneEvent == [kind |-> "done", text |-> << >>]
\* line 186
ErrorEvent(desc) ==
    [kind |-> "error", text |-> <<"E", "r", "r", "o", "r", ":", " ">> \o desc]

-----------------------------------------------------------------------------
(* The except clause of chat, lines 86-100 *)

LowerChar(c) ==
    CASE c = "Q" -> "q"
      [] c = "A" -> "a"
      [] c = "K" -> "k"
      [] OTHER -> c

\* str.lower()
Lower(s) == [i \in 1..Len(s) |-> LowerChar(s[i])]

\* sub in s
Contains(s, sub) ==
    \E i \in 0..(Len(s) - Len(sub)) : SubSeq(s, i + 1, i + Len(sub)) = sub

KW_API_KEY == <<"a", "p", "i", "_", "k", "e", "y">>
KW_QUOTA == <<"q", "u", "o", "t", "a">>

ErrorStatus(error_message) ==
    IF Contains(Lower(error_message), KW_API_KEY) THEN 401
    ELSE IF Contains(Lower(error_message), KW_QUOTA) THEN 429
    ELSE 500

-----------------------------------------------------------------------------
(* Requests *)

NoData == [question |-> << >>, session_id |-> "", stream |-> FALSE, model |-> ""]

\* A request that has not arrived yet.
\*   history, messages, response_text, full_response, error_message: the
\*     locals of those names;
\*   upstream_stream: the chunks the iterator of line 159 has yet to give;
\*   events: what the generator has yielded; status: the HTTP status sent;
\*   upstream: "none" until the upstream call is made, then "ok" or "failed"
\*     ("open" while a stream is being read);
\*   start: the session's entry when the request arrived; interfered:
\*     whether another request has changed that entry since.
IdleReq ==
    [pc |-> "idle", data |-> NoData, history |-> << >>, messages |-> << >>,
     response_text |-> << >>, full_response |-> << >>, error_message |-> << >>,
     upstream_stream |-> << >>, events |-> << >>, status |-> 0,
     upstream |-> "none",
     start |-> [present |-> FALSE, messages |-> << >>], interfered |-> FALSE]

\* A request whose handler has returned.
Returned == [IdleReq EXCEPT !.pc = "done"]

\* turn: the request that answered (0: a session handler); last: its record
\* as it returned.
NoResp ==
    [op |-> "none", key |-> "", status |-> 0, body |-> << >>, turn |-> 0,
     last |-> IdleReq]

HandlerResp(op, k, status, body) ==
    [op |-> op, key |-> k, status |-> status, body |-> body, turn |-> 0,
     last |-> IdleReq]

\* lines 44, 48-50, 65-68, 79-84, 92-100: what /api/chat answers
ChatResp(t, r) ==
    [op |-> "chat", key |-> r.data.session_id, status |-> r.status,
     body |-> IF r.data.stream /\ r.status = 200 THEN r.events
              ELSE IF r.status = 200
              THEN <<[result |-> r.response_text, session_id |-> r.data.session_id,
                      model |-> r.data.model]>>
              ELSE << >>,
     turn |-> t, last |-> r]

\* line 38 without the strip()
QuestionOf_NoStrip(data) == data.question

\* line 38: data.get("question", "").strip()
QuestionOf(data) == Strip(data.question)

question(t) == QuestionOf(req[t].data)
\* line 39
session_id(t) == req[t].data.session_id
\* line 40
stream(t) == req[t].data.stream
\* line 41
model(t) == req[t].data.model

InFlight(r) == r.pc \notin {"idle", "done"}

\* The requests as they are after a step of `actor` (0: a session handler)
\* that leaves the dict as d2: every other request in flight whose session's
\* entry the step changed has been interfered with.
Observe(actor, rs, d2) ==
    [u \in Turns |->
        IF /\ u # actor
           /\ InFlight(rs[u])
           /\ Entry(d2, rs[u].data.session_id)
                  # Entry(chat_sessions, rs[u].data.session_id)
        THEN [rs[u] EXCEPT !.interfered = TRUE]
        ELSE rs[u]]

\* Request t goes on as r, or returns if r is at its end; the dict is d2
\* after the step.
Step(t, r, d2) ==
    IF r.pc = "done"
    THEN /\ req' = Observe(t, [req EXCEPT ![t] = Returned], d2)
         /\ resp' = ChatResp(t, r)
    ELSE /\ req' = Observe(t, [req EXCEPT ![t] = r], d2)
         /\ resp' = NoResp

\* lines 86-100: the except clause answers with the status of the description
Failed(r, desc) ==
    [r EXCEPT !.pc = "done", !.error_message = desc, !.status = ErrorStatus(desc)]

\* line 173 with = for +=
Accumulate_Overwrite(full_response, content) == content

\* line 173: full_response += content
Accumulate(full_response, content) == full_response \o content

\* lines 185-187 falling through to the done event
StreamFailed_Done(r, desc) ==
    [r EXCEPT !.pc = "done", !.error_message = desc,
              !.events = Append(@, DoneEvent)]

\* lines 185-187: the generator's except clause yields the error event and ends
StreamFailed(r, desc) ==
    [r EXCEPT !.pc = "done", !.error_message = desc,
              !.events = Append(@, ErrorEvent(desc))]

Init ==
    /\ chat_sessions = << >>
    /\ req = [t \in Turns |-> IdleReq]
    /\ resp = NoResp
    /\ clock = 0
    /\ api_key \in BOOLEAN
    /\ cleared = FALSE

-----------------------------------------------------------------------------
(* POST /api/chat, lines 30-100 *)

\* lines 37-53 without the credential check of lines 47-50
Chat_Begin_NoKeyCheck(t, data) ==
    /\ req[t].pc = "idle"
    /\ IF t = 1 THEN TRUE ELSE req[t - 1].pc # "idle"
    /\ LET r0 == [req[t] EXCEPT !.data = data]
           r1 == IF QuestionOf(data) = << >>
                 THEN [r0 EXCEPT !.pc = "done", !.status = 400]
                 ELSE [r0 EXCEPT
                         !.pc = IF Has(chat_sessions, data.session_id)
                                THEN "L57" ELSE "L54",
                         !.start = Entry(chat_sessions, data.session_id)]
       IN Step(t, r1, chat_sessions)
    /\ cleared' = FALSE
    /\ UNCHANGED <<chat_sessions, clock, api_key>>

\* lines 37-53: read the request, validate, check the credential, look the
\* session up
Chat_Begin(t, data) ==
    /\ req[t].pc = "idle"
    /\ IF t = 1 THEN TRUE ELSE req[t - 1].pc # "idle"
    /\ LET r0 == [req[t] EXCEPT !.data = data]
           r1 == IF QuestionOf(data) = << >>
                 THEN [r0 EXCEPT !.pc = "done", !.status = 400]
                 ELSE IF ~api_key
                 THEN [r0 EXCEPT !.pc = "done", !.status = 500]
                 ELSE [r0 EXCEPT
                         !.pc = IF Has(chat_sessions, data.session_id)
                                THEN "L57" ELSE "L54",
                         !.start = Entry(chat_sessions, data.session_id)]
       IN Step(t, r1, chat_sessions)
    /\ cleared' = FALSE
    /\ UNCHANGED <<chat_sessions, clock, api_key>>

\* line 54 rebinding the whole dict: chat_sessions = {session_id: []}
Chat_InitSession_Reset(t) ==
    /\ req[t].pc = "L54"
    /\ chat_sessions' = <<[id |-> session_id(t), messages |-> << >>]>>
    /\ Step(t, [req[t] EXCEPT !.pc = "L57"], chat_sessions')
    /\ UNCHANGED <<clock, api_key, cleared>>

\* line 54
Chat_InitSession(t) ==
    /\ req[t].pc = "L54"
    /\ chat_sessions' = SetItem(chat_sessions, session_id(t), << >>)
    /\ Step(t, [req[t] EXCEPT !.pc = "L57"], chat_sessions')
    /\ UNCHANGED <<clock, api_key, cleared>>

\* lines 57-68: append the user message; a streaming request then answers
\* with the open response, whose body is the generator
Chat_AppendUser(t) ==
    /\ req[t].pc = "L57"
    /\ IF Has(chat_sessions, session_id(t))
       THEN \E now \in Now :
              /\ chat_sessions' =
                   SetItem(chat_sessions, session_id(t),
                           Append(Get(chat_sessions, session_id(t)),
                                  Message("user", question(t), now, t)))
              /\ clock' = now
              /\ Step(t, [req[t] EXCEPT !.pc = IF stream(t) THEN "L151" ELSE "L113",
                                        !.status = IF stream(t) THEN 200 ELSE 0],
                      chat_sessions')
       ELSE /\ Step(t, Failed(req[t], Repr(session_id(t))), chat_sessions)
            /\ UNCHANGED <<chat_sessions, clock>>
    /\ UNCHANGED <<api_key, cleared>>

\* lines 70, 102-138 with the except clause of line 136 taking the user
\* message back: chat_sessions[session_id].pop()
Chat_Generate_Rollback(t) ==
    /\ req[t].pc = "L113"
    /\ IF Has(chat_sessions, session_id(t))
       THEN LET h == HistorySlice(chat_sessions, session_id(t))
                r0 == [req[t] EXCEPT !.history = h, !.messages = PromptOf(h)]
                l == Get(chat_sessions, session_id(t))
            IN \/ /\ \E text \in Answers :
                       Step(t, [r0 EXCEPT !.pc = "L73", !.upstream = "ok",
                                          !.response_text = text], chat_sessions)
                  /\ UNCHANGED chat_sessions
               \/ /\ chat_sessions' =
                        SetItem(chat_sessions, session_id(t),
                                SubSeq(l, 1, Len(l) - 1))
                  /\ \E desc \in UpstreamErrors :
                       Step(t, Failed([r0 EXCEPT !.upstream = "failed"], desc),
                            chat_sessions')
       ELSE /\ Step(t, Failed(req[t], Repr(session_id(t))), chat_sessions)
            /\ UNCHANGED chat_sessions
    /\ UNCHANGED <<clock, api_key, cleared>>

\* lines 70, 102-138: generate_openai_response reads the slice, builds the
\* prompt and calls upstream, which answers or fails
Chat_Generate(t) ==
    /\ req[t].pc = "L113"
    /\ IF Has(chat_sessions, session_id(t))
       THEN LET h == HistorySlice(chat_sessions, session_id(t))
                r0 == [req[t] EXCEPT !.history = h, !.messages = PromptOf(h)]
            IN \/ \E text \in Answers :
                    Step(t, [r0 EXCEPT !.pc = "L73", !.upstream = "ok",
                                       !.response_text = text], chat_sessions)
               \/ \E desc \in UpstreamErrors :
                    Step(t, Failed([r0 EXCEPT !.upstream = "failed"], desc),
                         chat_sessions)
       ELSE Step(t, Failed(req[t], Repr(session_id(t))), chat_sessions)
    /\ UNCHANGED <<chat_sessions, clock, api_key, cleared>>

\* lines 73-84 without the append of lines 73-77
Chat_AppendAssistant_NoSave(t) ==
    /\ req[t].pc = "L73"
    /\ Step(t, [req[t] EXCEPT !.pc = "done", !.status = 200], chat_sessions)
    /\ UNCHANGED <<chat_sessions, clock, api_key, cleared>>

\* lines 73-84
Chat_AppendAssistant(t) ==
    /\ req[t].pc = "L73"
    /\ IF Has(chat_sessions, session_id(t))
       THEN \E now \in Now :
              /\ chat_sessions' =
                   SetItem(chat_sessions, session_id(t),
                           Append(Get(chat_sessions, session_id(t)),
                                  Message("assistant", req[t].response_text, now, t)))
              /\ clock' = now
              /\ Step(t, [req[t] EXCEPT !.pc = "done", !.status = 200],
                      chat_sessions')
       ELSE /\ Step(t, Failed(req[t], Repr(session_id(t))), chat_sessions)
            /\ UNCHANGED <<chat_sessions, clock>>
    /\ UNCHANGED <<api_key, cleared>>

-----------------------------------------------------------------------------
(* generate_stream_response, lines 140-187 *)

\* lines 144-167: read the slice, build the prompt, open the upstream stream
Stream_Open(t) ==
    /\ req[t].pc = "L151"
    /\ IF Has(chat_sessions, session_id(t))
       THEN LET h == HistorySlice(chat_sessions, session_id(t))
                r0 == [req[t] EXCEPT !.history = h, !.messages = PromptOf(h)]
            IN \/ \E chunks \in Streams :
                    Step(t, [r0 EXCEPT !.pc = "L170", !.upstream = "open",
                                       !.upstream_stream = chunks], chat_sessions)
               \/ \E desc \in UpstreamErrors :
                    Step(t, StreamFailed([r0 EXCEPT !.upstream = "failed"], desc),
                         chat_sessions)
       ELSE Step(t, StreamFailed(req[t], Repr(session_id(t))), chat_sessions)
    /\ UNCHANGED <<chat_sessions, clock, api_key, cleared>>

\* lines 170-174, one chunk: a chunk without content is skipped, a chunk
\* with content is accumulated and yielded
Stream_Chunk(t) ==
    /\ req[t].pc = "L170"
    /\ req[t].upstream_stream # << >>
    /\ LET chunk == Head(req[t].upstream_stream)
           r0 == [req[t] EXCEPT !.upstream_stream = Tail(@)]
       IN IF chunk.has_content
          THEN Step(t, [r0 EXCEPT !.full_response = Accumulate(@, chunk.content),
                                  !.events = Append(@, ContentEvent(chunk.content))],
                    chat_sessions)
          ELSE Step(t, r0, chat_sessions)
    /\ UNCHANGED <<chat_sessions, clock, api_key, cleared>>

\* lines 170, 185-187 with the append of lines 177-181 in a finally clause
Stream_Break_Save(t) ==
    /\ req[t].pc = "L170"
    /\ \E desc \in UpstreamErrors, now \in Now :
         /\ chat_sessions' =
              IF Has(chat_sessions, session_id(t))
              THEN SetItem(chat_sessions, session_id(t),
                           Append(Get(chat_sessions, session_id(t)),
                                  Message("assistant", req[t].full_response, now, t)))
              ELSE chat_sessions
         /\ clock' = now
         /\ Step(t, StreamFailed([req[t] EXCEPT !.upstream = "failed"], desc),
                 chat_sessions')
    /\ UNCHANGED <<api_key, cleared>>

\* line 170: reading the next chunk fails
Stream_Break(t) ==
    /\ req[t].pc = "L170"
    /\ \E desc \in UpstreamErrors :
         Step(t, StreamFailed([req[t] EXCEPT !.upstream = "failed"], desc),
              chat_sessions)
    /\ UNCHANGED <<chat_sessions, clock, api_key, cleared>>

\* lines 176-181 with setdefault(session_id, []) for the subscript
Stream_AppendAssistant_Recreate(t) ==
    /\ req[t].pc = "L170"
    /\ req[t].upstream_stream = << >>
    /\ \E now \in Now :
         /\ chat_sessions' =
              SetItem(chat_sessions, session_id(t),
                      Append(Entry(chat_sessions, session_id(t)).messages,
                             Message("assistant", req[t].full_response, now, t)))
         /\ clock' = now
         /\ Step(t, [req[t] EXCEPT !.pc = "L183", !.upstream = "ok"], chat_sessions')
    /\ UNCHANGED <<api_key, cleared>>

\* lines 170, 176-181: the stream is exhausted; append the accumulated text
Stream_AppendAssistant(t) ==
    /\ req[t].pc = "L170"
    /\ req[t].upstream_stream = << >>
    /\ IF Has(chat_sessions, session_id(t))
       THEN \E now \in Now :
              /\ chat_sessions' =
                   SetItem(chat_sessions, session_id(t),
                           Append(Get(chat_sessions, session_id(t)),
                                  Message("assistant", req[t].full_response, now, t)))
              /\ clock' = now
              /\ Step(t, [req[t] EXCEPT !.pc = "L183", !.upstream = "ok"],
                      chat_sessions')
       ELSE /\ Step(t, StreamFailed([req[t] EXCEPT !.upstream = "ok"],
                                    Repr(session_id(t))), chat_sessions)
            /\ UNCHANGED <<chat_sessions, clock>>
    /\ UNCHANGED <<api_key, cleared>>

\* line 183
Stream_Done(t) ==
    /\ req[t].pc = "L183"
    /\ Step(t, [req[t] EXCEPT !.pc = "done", !.events = Append(@, DoneEvent)],
            chat_sessions)
    /\ UNCHANGED <<chat_sessions, clock, api_key, cleared>>

-----------------------------------------------------------------------------
(* The session handlers, lines 189-264 *)

\* line 196: the first user message, if any
FirstUser(messages) ==
    LET users == SelectSeq(messages, LAMBDA m : m.role = "user")
    IN IF users = << >> THEN << >> ELSE <<Head(users)>>

NEW_CHAT == <<"N", "e", "w", " ", "C", "h", "a", "t">>

\* lines 197-202
Summary(e) ==
    [id |-> e.id,
     title |-> IF FirstUser(e.messages) # << >>
               THEN Prefix(FirstUser(e.messages)[1].content, TitleLimit)
               ELSE NEW_CHAT,
     message_count |-> Len(e.messages),
     last_updated |-> e.messages[Len(e.messages)].timestamp]

\* lines 192-202: one summary per non-empty session, in the dict's order
RECURSIVE Summaries(_)
Summaries(d) ==
    IF d = << >> THEN << >>
    ELSE IF Head(d).messages # << >>
         THEN <<Summary(Head(d))>> \o Summaries(Tail(d))
         ELSE Summaries(Tail(d))

\* Insert x into a sequence sorted by last_updated, descending, after the
\* entries that are not older than it: a stable sort's step.
RECURSIVE InsertDesc(_, _)
InsertDesc(x, sorted) ==
    IF sorted = << >> THEN <<x>>
    ELSE IF Head(sorted).last_updated >= x.last_updated
         THEN <<Head(sorted)>> \o InsertDesc(x, Tail(sorted))
         ELSE <<x>> \o sorted

\* line 205 left out
SortDesc_Forgotten(sessions) == sessions

\* line 205: list.sort(key=last_updated, reverse=True), which is stable
RECURSIVE SortDesc(_)
SortDesc(sessions) ==
    IF sessions = << >> THEN << >>
    ELSE InsertDesc(sessions[Len(sessions)],
                    SortDesc(SubSeq(sessions, 1, Len(sessions) - 1)))

\* A step of a session handler: the requests in flight see what it did.
Handled(r, d2) ==
    /\ resp' = r
    /\ req' = Observe(0, req, d2)

\* GET /api/sessions, lines 189-206
get_sessions ==
    /\ Handled(HandlerResp("get_sessions", "", 200,
                           SortDesc(Summaries(chat_sessions))), chat_sessions)
    /\ UNCHANGED <<chat_sessions, clock, api_key, cleared>>

\* lines 208-216 answering without the question of a turn still under way
get_session_Settled(k) ==
    /\ IF Has(chat_sessions, k)
       THEN LET messages == Get(chat_sessions, k)
                n == Len(messages)
            IN Handled(HandlerResp("get_session", k, 200,
                          IF n > 0 /\ messages[n].role = "user"
                          THEN SubSeq(messages, 1, n - 1) ELSE messages),
                       chat_sessions)
       ELSE Handled(HandlerResp("get_session", k, 404, << >>), chat_sessions)
    /\ UNCHANGED <<chat_sessions, clock, api_key, cleared>>

\* GET /api/sessions/<session_id>, lines 208-216
get_session(k) ==
    /\ IF Has(chat_sessions, k)
       THEN Handled(HandlerResp("get_session", k, 200, Get(chat_sessions, k)),
                    chat_sessions)
       ELSE Handled(HandlerResp("get_session", k, 404, << >>), chat_sessions)
    /\ UNCHANGED <<chat_sessions, clock, api_key, cleared>>

\* lines 218-224 clearing the dict instead of deleting the key
delete_session_all(k) ==
    /\ IF Has(chat_sessions, k)
       THEN /\ chat_sessions' = << >>
            /\ Handled(HandlerResp("delete_session", k, 200, << >>), chat_sessions')
       ELSE /\ UNCHANGED chat_sessions
            /\ Handled(HandlerResp("delete_session", k, 404, << >>), chat_sessions)
    /\ UNCHANGED <<clock, api_key, cleared>>

\* DELETE /api/sessions/<session_id>, lines 218-224
delete_session(k) ==
    /\ IF Has(chat_sessions, k)
       THEN /\ chat_sessions' = DelItem(chat_sessions, k)
            /\ Handled(HandlerResp("delete_session", k, 200, << >>), chat_sessions')
       ELSE /\ UNCHANGED chat_sessions
            /\ Handled(HandlerResp("delete_session", k, 404, << >>), chat_sessions)
    /\ UNCHANGED <<clock, api_key, cleared>>

\* POST /api/clear, lines 226-230
clear_all ==
    /\ chat_sessions' = << >>
    /\ Handled(HandlerResp("clear_all", "", 200, << >>), chat_sessions')
    /\ cleared' = TRUE
    /\ UNCHANGED <<clock, api_key>>

\* GET /api/models, lines 232-252: the ids of the three models it lists
get_models ==
    /\ Handled(HandlerResp("get_models", "", 200,
                           <<"gpt-3.5-turbo", "gpt-4", "gpt-4-turbo-preview">>),
               chat_sessions)
    /\ UNCHANGED <<chat_sessions, clock, api_key, cleared>>

\* GET /health, lines 254-264
health ==
    /\ Handled(HandlerResp("health", "", 200,
                           <<[status |-> "healthy",
                              sessions |-> Len(chat_sessions),
                              openai_configured |-> api_key,
                              default_model |-> DEFAULT_MODEL]>>), chat_sessions)
    /\ UNCHANGED <<chat_sessions, clock, api_key, cleared>>

-----------------------------------------------------------------------------

Requests ==
    [question : RawQuestions, session_id : SessionIds, stream : BOOLEAN,
     model : Models]

Next ==
    \/ \E t \in Turns, data \in Requests : Chat_Begin(t, data)
    \/ \E t \in Turns : Chat_InitSession(t)
    \/ \E t \in Turns : Chat_AppendUser(t)
    \/ \E t \in Turns : Chat_Generate(t)
    \/ \E t \in Turns : Chat_AppendAssistant(t)
    \/ \E t \in Turns : Stream_Open(t)
    \/ \E t \in Turns : Stream_Chunk(t)
    \/ \E t \in Turns : Stream_Break(t)
    \/ \E t \in Turns : Stream_AppendAssistant(t)
    \/ \E t \in Turns : Stream_Done(t)
    \/ get_sessions
    \/ \E k \in SessionIds : get_session(k)
    \/ \E k \in SessionIds : delete_session(k)
    \/ clear_all
    \/ get_models
    \/ health

Spec == Init /\ [][Next]_vars

-----------------------------------------------------------------------------
(* One request against a session that already holds a long history *)

MaxHistory == 22

Digit(n) ==
    CASE n = 0 -> "0" [] n = 1 -> "1" [] n = 2 -> "2" [] n = 3 -> "3"
      [] n = 4 -> "4" [] n = 5 -> "5" [] n = 6 -> "6" [] n = 7 -> "7"
      [] n = 8 -> "8" [] n = 9 -> "9"

\* The i-th message of a history left by earlier requests: questions and
\* answers in turn, each with a text of its own.
EarlierMessage(i) ==
    [role |-> IF i % 2 = 1 THEN "user" ELSE "assistant",
     content |-> <<"m", Digit((i \div 10) % 10), Digit(i % 10)>>,
     timestamp |-> 0, turn |-> 0]

InitPrompt ==
    /\ \E n \in 0..MaxHistory :
         chat_sessions =
            IF n = 0 THEN << >>
            ELSE <<[id |-> "s1", messages |-> [i \in 1..n |-> EarlierMessage(i)]]>>
    /\ req = [t \in Turns |-> IdleReq]
    /\ resp = NoResp
    /\ clock = 0
    /\ api_key = TRUE
    /\ cleared = FALSE

NextPrompt ==
    \/ \E data \in Requests : Chat_Begin(1, data)
    \/ Chat_InitSession(1)
    \/ Chat_AppendUser(1)
    \/ Chat_Generate(1)
    \/ Chat_AppendAssistant(1)
    \/ Stream_Open(1)
    \/ Stream_Chunk(1)
    \/ Stream_Break(1)
    \/ Stream_AppendAssistant(1)
    \/ Stream_Done(1)

SpecPrompt == InitPrompt /\ [][NextPrompt]_vars

-----------------------------------------------------------------------------
(* Properties *)

\* The request that answered in the last step, as it returned.
last == resp.last

\* `after` is `before` plus the user message of request r and then an
\* assistant message with text `answer`, stamped in that order.
GrewByTurn(before, after, r, answer) ==
    LET n == Len(before)
    IN /\ Len(after) = n + 2
       /\ SubSeq(after, 1, n) = before
       /\ after[n + 1].role = "user"
       /\ after[n + 1].content = Strip(r.data.question)
       /\ after[n + 2].role = "assistant"
       /\ after[n + 2].content = answer
       /\ after[n + 2].timestamp >= after[n + 1].timestamp

\* `after` is `before` plus the user message of request r and nothing else.
GrewByUser(before, after, r) ==
    LET n == Len(before)
    IN /\ Len(after) = n + 1
       /\ SubSeq(after, 1, n) = before
       /\ after[n + 1].role = "user"
       /\ after[n + 1].content = Strip(r.data.question)

\* The texts of the fragment events of `events`, concatenated in order.
RECURSIVE Emitted(_)
Emitted(events) ==
    IF events = << >> THEN << >>
    ELSE (IF Head(events).kind = "content" THEN Head(events).text ELSE << >>)
            \o Emitted(Tail(events))

\* The messages request t has in the dict, in any session.
MessagesOf(t) ==
    UNION { { chat_sessions[i].messages[j] :
                j \in { j \in 1..Len(chat_sessions[i].messages) :
                          chat_sessions[i].messages[j].turn = t } } :
            i \in 1..Len(chat_sessions) }

\* C1 as stated: a non-streaming send whose upstream call succeeded has, when
\* it returns, left the session's history as it was at its start plus its
\* user message (the trimmed question) and then the assistant message with
\* the upstream text, the second stamped no earlier than the first.
C1_Original ==
    (resp.op = "chat" /\ ~last.data.stream /\ last.upstream = "ok")
    => /\ Has(chat_sessions, resp.key)
       /\ GrewByTurn(last.start.messages, Get(chat_sessions, resp.key), last,
                     last.response_text)

\* C1, amended: the same, for a send during which no other request changed
\* the session's entry; such a send answers 200 with the upstream text.
C1_NonStreamingTurn ==
    (resp.op = "chat" /\ ~last.data.stream /\ last.upstream = "ok"
        /\ ~last.interfered)
    => /\ resp.status = 200
       /\ resp.body = <<[result |-> last.response_text, session_id |-> resp.key,
                         model |-> last.data.model]>>
       /\ Has(chat_sessions, resp.key)
       /\ GrewByTurn(last.start.messages, Get(chat_sessions, resp.key), last,
                     last.response_text)

C1_Witness ==
    /\ resp.op = "chat" /\ ~last.data.stream /\ last.upstream = "ok"
    /\ ~last.interfered
    /\ last.start.present /\ Len(last.start.messages) = 2
    /\ last.data.question # Strip(last.data.question)
    /\ Len(Get(chat_sessions, resp.key)) = 4

\* C2 as stated: a streaming send whose upstream stream ended without a
\* failure has left the history as it was at its start plus its user message
\* and an assistant message whose text is the concatenation of the fragments
\* it emitted.
C2_Original ==
    (resp.op = "chat" /\ last.data.stream /\ last.upstream = "ok")
    => /\ Has(chat_sessions, resp.key)
       /\ GrewByTurn(last.start.messages, Get(chat_sessions, resp.key), last,
                     Emitted(last.events))

\* C2, amended: the same, for a send during which no other request changed
\* the session's entry; its stream ends with the done event.
C2_StreamingTurn ==
    (resp.op = "chat" /\ last.data.stream /\ last.upstream = "ok"
        /\ ~last.interfered)
    => /\ last.events # << >>
       /\ last.events[Len(last.events)] = DoneEvent
       /\ Has(chat_sessions, resp.key)
       /\ GrewByTurn(last.start.messages, Get(chat_sessions, resp.key), last,
                     Emitted(last.events))

C2_Witness ==
    /\ resp.op = "chat" /\ last.data.stream /\ last.upstream = "ok"
    /\ ~last.interfered
    /\ Len(last.events) = 3
    /\ Emitted(last.events) = <<"x", "y">>
    /\ Get(chat_sessions, resp.key)[Len(Get(chat_sessions, resp.key))].content
          = <<"x", "y">>

\* C3: a streaming send whose upstream call failed, before or after any
\* fragments, has no assistant message in any history (its only message there
\* is its user message, and with no other request changing the session the
\* history is the one at its start plus that message); its stream is the
\* fragments, then one error event with "Error: " and the failure
\* description, and holds no done event.
C3_StreamFailure ==
    (resp.op = "chat" /\ last.data.stream /\ last.upstream = "failed")
    => /\ last.error_message \in UpstreamErrors
       /\ last.events # << >>
       /\ last.events[Len(last.events)] =
             [kind |-> "error",
              text |-> <<"E", "r", "r", "o", "r", ":", " ">> \o last.error_message]
       /\ \A i \in 1..(Len(last.events) - 1) : last.events[i].kind = "content"
       /\ \A m \in MessagesOf(resp.turn) :
             m.role = "user" /\ m.content = Strip(last.data.question)
       /\ ~last.interfered =>
             /\ Has(chat_sessions, resp.key)
             /\ GrewByUser(last.start.messages, Get(chat_sessions, resp.key), last)

C3_Witness ==
    /\ resp.op = "chat" /\ last.data.stream /\ last.upstream = "failed"
    /\ ~last.interfered
    /\ Len(last.events) = 3
    /\ Emitted(last.events) = <<"x", "y">>
    /\ Len(Get(chat_sessions, resp.key)) = 1

\* C4: a send whose question is empty or only whitespace answers 400 in its
\* first step, whatever its session, model and stream flag: it never gets
\* past validation, makes no upstream call and leaves the dict as it was.
C4_EmptyQuestion ==
    [][ /\ (resp'.op = "chat" /\ Strip(resp'.last.data.question) = << >>)
           => /\ resp'.status = 400
              /\ resp'.last.upstream = "none"
              /\ resp'.body = << >>
              /\ chat_sessions' = chat_sessions
        /\ \A t \in Turns :
              InFlight(req'[t]) => Strip(req'[t].data.question) # << >>
      ]_vars

C4_Witness ==
    /\ resp.op = "chat" /\ resp.status = 400
    /\ last.data.question = <<" ">>
    /\ last.data.stream
    /\ Len(chat_sessions) = 1
    /\ ~Has(chat_sessions, resp.key)

\* C5: in both paths the prompt handed to upstream is the system message
\* followed by the last min(20, n) of the session's n messages, in order,
\* each with its role and content; for n > 20 that is 21 entries, none of
\* them one of the n - 20 older messages.
C5_Prompt ==
    \A t \in Turns :
        req[t].pc \in {"L73", "L170"} =>
            LET hist == Get(chat_sessions, req[t].data.session_id)
                n == Len(hist)
                k == IF n < 20 THEN n ELSE 20
                prompt == req[t].messages
            IN /\ Len(prompt) = k + 1
               /\ prompt[1] = [role |-> "system", content |-> SYSTEM_MESSAGE]
               /\ \A i \in 1..k :
                     prompt[i + 1] = [role |-> hist[n - k + i].role,
                                      content |-> hist[n - k + i].content]
               /\ n > 20 =>
                     /\ Len(prompt) = 21
                     /\ \A j \in 1..(n - 20) : \A i \in 1..Len(prompt) :
                           prompt[i].content # hist[j].content

C5_Witness ==
    \E t \in Turns :
        /\ req[t].pc = "L170"
        /\ Len(Get(chat_sessions, req[t].data.session_id)) = 23
        /\ Len(req[t].messages) = 21
        /\ req[t].messages[2].content = <<"m", "0", "4">>

\* C6 as stated: whatever other requests do, the slice a send reads for its
\* upstream call holds that send's own user message.
C6_OwnMessageInPrompt ==
    \A t \in Turns :
        req[t].upstream # "none" =>
            \E i \in 1..Len(req[t].history) :
                /\ req[t].history[i].turn = t
                /\ req[t].history[i].role = "user"

\* C7: a session whose list is empty has a request between line 54, where it
\* created the session, and its append of line 57; with no such request every
\* list in the dict is non-empty.
C7_NoEmptySession ==
    \A i \in 1..Len(chat_sessions) :
        chat_sessions[i].messages = << >> =>
            \E t \in Turns :
                /\ req[t].pc = "L57"
                /\ ~req[t].start.present
                /\ req[t].data.session_id = chat_sessions[i].id

C7_Witness ==
    /\ Len(chat_sessions) = 2
    /\ \E t \in Turns : req[t].pc = "L73"
    /\ \A t \in Turns : req[t].pc # "L57"
    /\ \A i \in 1..Len(chat_sessions) : chat_sessions[i].messages # << >>

C9_ClearThenList ==
    /\ resp.op = "clear_all" => resp.status = 200 /\ chat_sessions = << >>
    /\ (cleared /\ resp.op = "get_sessions") => resp.body = << >>

C11_NoCredential ==
    [][ ~api_key =>
          /\ (resp'.op = "chat" /\ Strip(resp'.last.data.question) # << >>)
                => /\ resp'.status = 500
                   /\ resp'.last.upstream = "none"
                   /\ resp'.last.error_message = << >>
                   /\ resp'.body = << >>
          /\ chat_sessions' = chat_sessions
          /\ chat_sessions = << >>
          /\ \A t \in Turns : ~InFlight(req'[t])
      ]_vars

C11_Witness ==
    /\ ~api_key
    /\ resp.op = "chat" /\ resp.status = 500
    /\ last.data.question = <<" ", "a", " ">>
    /\ last.data.stream
    /\ req[1].pc = "done"
    /\ chat_sessions = << >>

\* What a failure description of upstream reports.
Indicates(desc) ==
    CASE desc = <<"i", "n", "v", "a", "l", "i", "d", "_", "a", "p", "i", "_", "k", "e", "y">>
            -> "credential"
      [] desc = <<"Q", "u", "o", "t", "a">> -> "quota"
      [] OTHER -> "other"

\* The first half of C12: a non-streaming send whose upstream call failed
\* answers 401 for a credential failure, 429 for a quota failure and 500 for
\* any other, and nothing was appended for the reply.
C12_UpstreamClass ==
    (resp.op = "chat" /\ ~last.data.stream /\ last.upstream = "failed")
    => /\ last.error_message \in UpstreamErrors
       /\ resp.status =
             CASE Indicates(last.error_message) = "credential" -> 401
               [] Indicates(last.error_message) = "quota" -> 429
               [] OTHER -> 500
       /\ resp.body = << >>

\* C12 as stated: the above, and a send that failed for any other reason than
\* a credential or quota failure of upstream never answers 401 or 429.
C12_ErrorClass ==
    /\ C12_UpstreamClass
    /\ (resp.op = "chat" /\ resp.status \in {401, 429})
       => /\ last.upstream = "failed"
          /\ Indicates(last.error_message) \in {"credential", "quota"}

\* s is a prefix of t
IsPrefix(s, t) == Len(s) <= Len(t) /\ SubSeq(t, 1, Len(s)) = s

\* C13 as stated: every step other than delete_session of the key and
\* clear_all leaves each session in the dict, its list before the step a
\* prefix of its list after.
C13_AppendOnly ==
    [][ \A k \in SessionIds :
          (/\ Has(chat_sessions, k)
           /\ resp'.op # "clear_all"
           /\ ~(resp'.op = "delete_session" /\ resp'.key = k))
          => /\ Has(chat_sessions', k)
             /\ IsPrefix(Get(chat_sessions, k), Get(chat_sessions', k))
      ]_vars

\* C14: a key comes into the dict only in the step of line 54 of a send for
\* that key, which has passed validation and the credential check; it leaves
\* the dict only in a delete_session of that key that answers 200 or in a
\* clear_all; an append of an assistant message that finds its session gone
\* fails and adds nothing, and a send that has failed so leaves the key out.
C14_Lifecycle ==
    [][ \A k \in SessionIds :
          /\ (~Has(chat_sessions, k) /\ Has(chat_sessions', k))
             => /\ api_key
                /\ Get(chat_sessions', k) = << >>
                /\ \E t \in Turns :
                      /\ req[t].pc = "L54" /\ req'[t].pc = "L57"
                      /\ req[t].data.session_id = k
                      /\ Strip(req[t].data.question) # << >>
          /\ (Has(chat_sessions, k) /\ ~Has(chat_sessions', k))
             => \/ resp'.op = "clear_all"
                \/ resp'.op = "delete_session" /\ resp'.key = k /\ resp'.status = 200
          /\ (\E t \in Turns :
                 /\ req[t].pc \in {"L73", "L170"}
                 /\ req[t].data.session_id = k
                 /\ req'[t].pc # req[t].pc
                 /\ ~Has(chat_sessions, k))
             => ~Has(chat_sessions', k)
      ]_vars

C14_Witness ==
    /\ resp.op = "chat" /\ last.data.stream /\ last.upstream = "ok"
    /\ Emitted(last.events) = <<"x", "y">>
    /\ last.events[Len(last.events)] = ErrorEvent(Repr(resp.key))
    /\ ~Has(chat_sessions, resp.key)
    /\ chat_sessions # << >>

\* The positions of a send between its append of the user message and its
\* append of the assistant message.
MidTurn == {"L113", "L73", "L151", "L170"}

\* C15: get_session answers with the list as it is in the dict, whatever
\* sends are under way on that key: for a send between its two appends (and
\* with no other request having changed the session since it arrived) the
\* answer ends with that send's user message and holds no assistant message
\* of it.  Nothing orders the appends of two sends on one key, so a list with
\* both user messages before both assistant messages is reached.
C15_TurnNotAtomic ==
    (resp.op = "get_session" /\ resp.status = 200)
    => /\ Has(chat_sessions, resp.key)
       /\ resp.body = Get(chat_sessions, resp.key)
       /\ \A t \in Turns :
             (/\ req[t].pc \in MidTurn
              /\ req[t].data.session_id = resp.key
              /\ ~req[t].interfered)
             => /\ resp.body # << >>
                /\ resp.body[Len(resp.body)].turn = t
                /\ resp.body[Len(resp.body)].role = "user"
                /\ resp.body[Len(resp.body)].content = Strip(req[t].data.question)
                /\ \A i \in 1..Len(resp.body) :
                      resp.body[i].turn = t => resp.body[i].role = "user"

\* A get_session that finds a send between its two appends.
C15_MidTurnRead ==
    /\ resp.op = "get_session" /\ resp.status = 200
    /\ \E t \in Turns :
          /\ req[t].pc = "L73"
          /\ req[t].data.session_id = resp.key
          /\ resp.body # << >>
          /\ resp.body[Len(resp.body)].turn = t
          /\ resp.body[Len(resp.body)].role = "user"

\* Both user messages, then both assistant messages, read by get_session.
C15_Witness ==
    /\ resp.op = "get_session" /\ resp.status = 200
    /\ Len(resp.body) = 4
    /\ resp.body[1].role = "user" /\ resp.body[2].role = "user"
    /\ resp.body[3].role = "assistant" /\ resp.body[4].role = "assistant"
    /\ resp.body[1].turn # resp.body[2].turn
    /\ resp.body[3].turn # resp.body[4].turn

\* How many assistant messages request t has in the dict.
AssistantCount(t) ==
    Cardinality(UNION { { <<i, j>> :
                            j \in { j \in 1..Len(chat_sessions[i].messages) :
                                      /\ chat_sessions[i].messages[j].turn = t
                                      /\ chat_sessions[i].messages[j].role
                                            = "assistant" } } :
                        i \in 1..Len(chat_sessions) })

\* C16: a stream that has ended holds fragments and then one terminal event,
\* done or error, and a stream still running holds fragments only.  The
\* append of the accumulated text runs once at most; a stream that ended with
\* error has appended nothing, and one that ended with done has appended the
\* text it emitted before the done event (it is there unless another request
\* has removed it since).  Once the response is open a failure is the error
\* event and the status stays 200; a streaming send that answers another
\* status has failed before its stream was opened.
C16_OneTerminalEvent ==
    /\ \A t \in Turns :
          (InFlight(req[t]) /\ req[t].data.stream) =>
             /\ \A i \in 1..Len(req[t].events) : req[t].events[i].kind = "content"
             /\ AssistantCount(t) <= 1
             /\ req[t].pc # "L183" => AssistantCount(t) = 0
             /\ (req[t].pc = "L183" /\ ~req[t].interfered) => AssistantCount(t) = 1
    /\ (resp.op = "chat" /\ last.data.stream /\ resp.status # 200)
       => /\ last.upstream = "none"
          /\ last.events = << >>
          /\ AssistantCount(resp.turn) = 0
    /\ (resp.op = "chat" /\ last.data.stream /\ resp.status = 200)
       => /\ resp.body = last.events
          /\ last.events # << >>
          /\ last.events[Len(last.events)].kind \in {"done", "error"}
          /\ \A i \in 1..(Len(last.events) - 1) : last.events[i].kind = "content"
          /\ AssistantCount(resp.turn) <= 1
          /\ last.events[Len(last.events)].kind = "error"
                => /\ AssistantCount(resp.turn) = 0
                   /\ last.error_message # << >>
          /\ last.events[Len(last.events)].kind = "done"
                => /\ last.upstream = "ok"
                   /\ last.error_message = << >>
                   /\ ~last.interfered =>
                         /\ AssistantCount(resp.turn) = 1
                         /\ Get(chat_sessions, resp.key)
                               [Len(Get(chat_sessions, resp.key))].content
                                = Emitted(last.events)

C16_Witness ==
    /\ resp.op = "chat" /\ last.data.stream /\ last.upstream = "ok"
    /\ last.interfered
    /\ last.events[Len(last.events)] = DoneEvent
    /\ Len(last.events) = 3
    /\ AssistantCount(resp.turn) = 1
    /\ Len(Get(chat_sessions, resp.key)) = 3

\* C17 as stated: every assistant message in a list comes after the user
\* message of the same turn in that list.
C17_AssistantAfterOwnUser ==
    \A i \in 1..Len(chat_sessions) :
        \A j \in 1..Len(chat_sessions[i].messages) :
            chat_sessions[i].messages[j].role = "assistant" =>
                \E j2 \in 1..(j - 1) :
                    /\ chat_sessions[i].messages[j2].turn =
                          chat_sessions[i].messages[j].turn
                    /\ chat_sessions[i].messages[j2].role = "user"

\* C18 as stated: a non-streaming send whose upstream call failed has left
\* its session in the dict, the list as it was at its start plus its user
\* message.
C18_Original ==
    (resp.op = "chat" /\ ~last.data.stream /\ last.upstream = "failed")
    => /\ Has(chat_sessions, resp.key)
       /\ GrewByUser(last.start.messages, Get(chat_sessions, resp.key), last)

\* C18, amended: a non-streaming send whose upstream call failed answers
\* 401, 429 or 500 and has appended no assistant message; if no other request
\* changed the session's entry meanwhile, the session is in the dict and its
\* list is the one at the start of the send plus the user message.
C18_UserMessageKept ==
    (resp.op = "chat" /\ ~last.data.stream /\ last.upstream = "failed")
    => /\ resp.status \in {401, 429, 500}
       /\ AssistantCount(resp.turn) = 0
       /\ ~last.interfered =>
             /\ Has(chat_sessions, resp.key)
             /\ GrewByUser(last.start.messages, Get(chat_sessions, resp.key), last)
             /\ Get(chat_sessions, resp.key)[Len(last.start.messages) + 1].turn
                   = resp.turn

C18_Witness ==
    /\ resp.op = "chat" /\ ~last.data.stream /\ last.upstream = "failed"
    /\ ~last.interfered
    /\ resp.status = 429
    /\ last.start.present /\ Len(last.start.messages) = 2
    /\ Len(Get(chat_sessions, resp.key)) = 3

\* The send that takes the step.
Actor(t) ==
    \/ req'[t].pc # req[t].pc
    \/ req'[t].upstream_stream # req[t].upstream_stream

\* The session key of the send that takes the step.
KeyOfStep(t) == IF req'[t].pc = "done" THEN resp'.key ELSE req'[t].data.session_id

\* C19: a step of a send leaves every key but its own as it was, in the dict
\* or out of it, with the same list; get_session, get_sessions, get_models
\* and health leave the dict as it was; health answers 200 with the number of
\* keys in the dict and whether the credential is set.
C19_Frame ==
    [][ /\ \A t \in Turns :
              (resp'.op \in {"chat", "none"} /\ Actor(t))
              => \A k \in SessionIds \ {KeyOfStep(t)} :
                    Entry(chat_sessions', k) = Entry(chat_sessions, k)
        /\ resp'.op \in {"chat", "none"} => \E t \in Turns : Actor(t)
        /\ resp'.op \in {"get_session", "get_sessions", "get_models", "health"}
              => /\ chat_sessions' = chat_sessions
                 /\ \A t \in Turns : req'[t] = req[t]
        /\ resp'.op = "health"
              => /\ resp'.status = 200
                 /\ resp'.body[1].status = "healthy"
                 /\ resp'.body[1].sessions = Cardinality(Keys(chat_sessions))
                 /\ resp'.body[1].openai_configured = api_key
                 /\ resp'.body[1].default_model = DEFAULT_MODEL
      ]_vars

C19_Witness ==
    /\ resp.op = "chat" /\ resp.status = 200 /\ ~last.data.stream
    /\ Len(chat_sessions) = 2
    /\ chat_sessions[1].id # resp.key
    /\ Len(chat_sessions[1].messages) = 2
    /\ Len(chat_sessions[2].messages) = 2

=============================================================================
